---- MODULE Spec2Model ----
(***************************************************************************)
(* Model of the Skypack package source (src/sources/skypack.ts).           *)
(*                                                                         *)
(* JavaScript strings are tuples of one-character strings, so that split,  *)
(* startsWith, join, concatenation and the regular-expression replace are  *)
(* computed character by character.  Every async method is cut at its      *)
(* awaits: one action runs the synchronous code between two suspension     *)
(* points of one call.                                                     *)
(***************************************************************************)
EXTENDS Naturals, Integers, Sequences, FiniteSets, TLC

VARIABLES
    fetchedPackages,  \* the module-level Set of package names
    messages,         \* the progress messages logFetching logged, in order
    callers,          \* the call contexts the build tool uses in this process
    started,          \* number of calls made so far
    method,           \* per caller: the method it is in
    pc,               \* per caller: where its call is suspended
    spec,             \* per caller: load's argument spec
    lockfile,         \* per caller: the lockfile argument
    webModulesUrl,    \* per caller: config.buildOptions.webModulesUrl
    targets,          \* per caller: prepare's installTargets
    idx,              \* per caller: prepare's loop position
    notified,         \* per caller: the arguments of its logFetching calls
    info,             \* per caller: the other logger.info lines of its call
    cdn,              \* per caller: the CDN client calls made, in order
    fetches,          \* per caller: the bodies fetchCDN resolved with
    lookups,          \* per caller: the lookup responses received, in order
    builds,           \* per caller: the success flags of the build responses
    installs,         \* per caller: how its installTypes calls ended
    outcome,          \* per caller: value returned or error thrown
    installOptions,   \* config.installOptions, the shared build configuration
    configured,       \* the plugin list at start, the number of configure calls
    parse             \* an application of parseRawPackageImport on its own

\* what load and prepare neither read nor write
configAndParse == <<installOptions, configured, parse>>

vars == <<fetchedPackages, messages, callers, started, method, pc, spec,
          lockfile, webModulesUrl, targets, idx, notified, info, cdn, fetches,
          lookups, builds, installs, outcome, configAndParse>>

(***************************************************************************)
(* Bounds                                                                  *)
(***************************************************************************)
MaxCalls == 2
MaxTargets == 2
MaxSpecLen == 5

Procs == {"c1", "c2"}

(***************************************************************************)
(* Strings                                                                 *)
(***************************************************************************)
\* values outside the strings: they hold a token no string contains
Null == <<"<null>">>
Undefined == <<"<undefined>">>

\* String(v) as template literals and + apply it
ToStr(v) ==
    IF v = Null THEN <<"n", "u", "l", "l">>
    ELSE IF v = Undefined THEN <<"u", "n", "d", "e", "f", "i", "n", "e", "d">>
    ELSE v

\* JavaScript truthiness of a string, null or undefined
Truthy(v) == v # Null /\ v # Undefined /\ v # <<>>

StartsWith(s, pre) ==
    /\ Len(s) >= Len(pre)
    /\ SubSeq(s, 1, Len(pre)) = pre

\* s.split(sep) for a one-character separator
RECURSIVE Split(_, _)
Split(s, sep) ==
    IF \A i \in 1..Len(s) : s[i] # sep THEN <<s>>
    ELSE LET i == CHOOSE j \in 1..Len(s) :
                      s[j] = sep /\ \A k \in 1..(j - 1) : s[k] # sep
         IN <<SubSeq(s, 1, i - 1)>> \o Split(SubSeq(s, i + 1, Len(s)), sep)

\* parts.join(sep)
RECURSIVE Join(_, _)
Join(parts, sep) ==
    IF parts = <<>> THEN <<>>
    ELSE IF Len(parts) = 1 THEN ToStr(parts[1])
    ELSE ToStr(parts[1]) \o <<sep>> \o Join(Tail(parts), sep)

\* m[k] of a JavaScript object used as a map
Get(m, k) == IF k \in DOMAIN m THEN m[k] ELSE Undefined

(***************************************************************************)
(* parseRawPackageImport                                                   *)
(***************************************************************************)
At(parts, i) == IF i <= Len(parts) THEN parts[i] ELSE Undefined

OrNull(s) == IF Truthy(s) THEN s ELSE Null

parseRawPackageImport(s) ==
    LET impParts == Split(s, "/")
    IN IF StartsWith(s, <<"@">>)
       THEN <<ToStr(At(impParts, 1)) \o <<"/">> \o ToStr(At(impParts, 2)),
              OrNull(Join(SubSeq(impParts, 3, Len(impParts)), "/"))>>
       ELSE <<At(impParts, 1),
              OrNull(Join(SubSeq(impParts, 2, Len(impParts)), "/"))>>

(***************************************************************************)
(* path.extname and isJavaScript                                           *)
(***************************************************************************)
RECURSIVE StripTrailingSlashes(_)
StripTrailingSlashes(s) ==
    IF Len(s) > 1 /\ s[Len(s)] = "/"
    THEN StripTrailingSlashes(SubSeq(s, 1, Len(s) - 1))
    ELSE s

Basename(s) ==
    LET parts == Split(StripTrailingSlashes(s), "/")
    IN parts[Len(parts)]

extname(s) ==
    LET b == Basename(s)
        dots == {i \in 1..Len(b) : b[i] = "."}
    IN IF dots = {} THEN <<>>
       ELSE LET last == CHOOSE i \in dots : \A j \in dots : j <= i
            IN IF last = 1 \/ b = <<".", ".">> THEN <<>>
               ELSE SubSeq(b, last, Len(b))

isJavaScript(s) ==
    extname(s) \in {<<".", "j", "s">>, <<".", "m", "j", "s">>,
                    <<".", "c", "j", "s">>}

(***************************************************************************)
(* The import rewrite: two global regular-expression replaces              *)
(***************************************************************************)
FromKw == <<"f", "r", "o", "m">>
ImportKw == <<"i", "m", "p", "o", "r", "t">>

\* the keyword and length of the match of /(from|import) Q\// at position i
MatchAt(text, i, q) ==
    LET rest == SubSeq(text, i, Len(text))
    IN IF StartsWith(rest, FromKw \o <<" ", q, "/">>) THEN FromKw
       ELSE IF StartsWith(rest, ImportKw \o <<" ", q, "/">>) THEN ImportKw
       ELSE <<>>

\* text.replace(/(from|import) Q\//g, `$1 Q${url}/`) from position i on
RECURSIVE ReplaceFrom(_, _, _, _)
ReplaceFrom(text, i, q, url) ==
    IF i > Len(text) THEN <<>>
    ELSE LET kw == MatchAt(text, i, q)
         IN IF kw # <<>>
            THEN kw \o <<" ", q>> \o url \o <<"/">>
                    \o ReplaceFrom(text, i + Len(kw) + 3, q, url)
            ELSE <<text[i]>> \o ReplaceFrom(text, i + 1, q, url)

\* variant: the replacement template keeps the matched slash before the URL
RewriteImportsKeepSlash(text, url) ==
    ReplaceFrom(ReplaceFrom(text, 1, "'", <<"/">> \o url), 1, "\"", <<"/">> \o url)

RewriteImports(text, url) ==
    ReplaceFrom(ReplaceFrom(text, 1, "'", url), 1, "\"", url)

\* Buffer.toString(): UTF-8 decoding, an invalid byte becomes U+FFFD
BufferToString(body) ==
    [i \in 1..Len(body) |-> IF body[i] = "<0xFF>" THEN "<U+FFFD>" ELSE body[i]]

(***************************************************************************)
(* Inputs: specifiers, lockfiles, configurations, CDN bodies               *)
(***************************************************************************)
SpecA == <<"a">>
SpecAB == <<"a", "/", "b">>
SpecABCss == <<"a", "/", "b", ".", "c", "s", "s">>
SpecABJs == <<"a", "/", "b", ".", "j", "s">>
SpecScoped == <<"@", "s", "/", "a">>
SpecScopedSub == <<"@", "s", "/", "a", "/", "b">>
SpecDash == <<"-", "/", "a">>
SpecPin == <<"p", "i", "n", "/", "a">>
SpecNew == <<"n", "e", "w", "/", "a", ".", "c", "s", "s">>
SpecError == <<"e", "r", "r", "o", "r", "/", "a">>
SpecPina == <<"p", "i", "n", "a">>

Specs == {SpecA, SpecAB, SpecABCss, SpecABJs, SpecScoped, SpecScopedSub,
          SpecDash, SpecPin, SpecNew, SpecError, SpecPina}

UrlP == <<"/", "p", ".", "c", "s", "s">>
UrlPJs == <<"/", "p", ".", "j", "s">>
UrlQ == <<"/", "q", "/">>
UrlR == <<"/", "r", "/">>
Semver1 == <<"1">>

NoLockfile == [isNull |-> TRUE, imports |-> <<>>, dependencies |-> <<>>]
EmptyLockfile == [isNull |-> FALSE, imports |-> <<>>, dependencies |-> <<>>]
DepsLockfile ==
    [isNull |-> FALSE, imports |-> <<>>, dependencies |-> (SpecA :> Semver1)]
PrefixLockfile ==
    [isNull |-> FALSE,
     imports |-> ((SpecA \o <<"/">>) :> UrlQ) @@ ((SpecScoped \o <<"/">>) :> UrlR),
     dependencies |-> <<>>]
ExactLockfile ==
    [isNull |-> FALSE,
     imports |-> (SpecA :> UrlP) @@ (SpecABCss :> UrlPJs) @@ (SpecPin :> UrlPJs),
     dependencies |-> <<>>]
FullLockfile ==
    [isNull |-> FALSE,
     imports |-> (SpecA :> UrlP) @@ (SpecABCss :> UrlPJs)
                    @@ ((SpecA \o <<"/">>) :> UrlQ),
     dependencies |-> (SpecA :> Semver1)]

Lockfiles == {NoLockfile, EmptyLockfile, DepsLockfile, PrefixLockfile,
              ExactLockfile, FullLockfile}

WebModulesUrls == {<<"/", "w">>, <<"w">>}

BodyFrom == <<"f", "r", "o", "m", " ", "'", "/", "a">>
BodyImport ==
    <<"i", "m", "p", "o", "r", "t", " ", "\"", "/", "b", "\"", "<0xFF>",
      "f", "r", "o", "m", " ", "'", "c">>
Bodies == {BodyFrom, BodyImport}

LookupErrors == {"E1", "E2"}
LookupResponses ==
    [error : {"null"} \cup LookupErrors, importStatus : {"NEW", "READY"},
     body : Bodies]

\* the reduced inputs of the runs with two concurrent callers
ConcSpecs == {SpecA, SpecAB, SpecPin}
ConcLockfiles == {NoLockfile, DepsLockfile}
ConcLookupResponses ==
    [error : {"null", "E1"}, importStatus : {"NEW", "READY"}, body : {BodyFrom}]

InSpecs == IF Cardinality(callers) = 1 THEN Specs ELSE ConcSpecs
InLockfiles == IF Cardinality(callers) = 1 THEN Lockfiles ELSE ConcLockfiles
InUrls == IF Cardinality(callers) = 1 THEN WebModulesUrls ELSE {<<"/", "w">>}
InBodies == IF Cardinality(callers) = 1 THEN Bodies ELSE {BodyFrom}
InLookupResponses ==
    IF Cardinality(callers) = 1 THEN LookupResponses ELSE ConcLookupResponses
ConfigLockfiles == {NoLockfile, DepsLockfile}
MissingPackages == {SpecA, SpecScoped}
TargetSpecs == {SpecA, SpecAB, SpecScoped}
RECURSIVE SeqsUpTo(_, _)
SeqsUpTo(S, n) ==
    IF n = 0 THEN {<<>>}
    ELSE LET shorter == SeqsUpTo(S, n - 1)
         IN shorter \cup {Append(q, x) : q \in shorter, x \in S}
InTargets ==
    SeqsUpTo(IF Cardinality(callers) = 1 THEN TargetSpecs ELSE {SpecA, SpecAB},
             MaxTargets)

(***************************************************************************)
(* logFetching                                                             *)
(***************************************************************************)
FetchingMessage(packageName) == [text |-> "Fetching latest", pkg |-> packageName]

\* variant: no has() check before logging
logFetchingNoCheck(fetched, log, packageName) ==
    [fetched |-> fetched \cup {packageName},
     log |-> Append(log, FetchingMessage(packageName))]

\* variant: the name is never added to the Set
logFetchingNoAdd(fetched, log, packageName) ==
    IF packageName \in fetched
    THEN [fetched |-> fetched, log |-> log]
    ELSE [fetched |-> fetched, log |-> Append(log, FetchingMessage(packageName))]

\* variant: the Set holds the last reported name only
logFetchingReplaces(fetched, log, packageName) ==
    IF packageName \in fetched
    THEN [fetched |-> fetched, log |-> log]
    ELSE [fetched |-> {packageName},
          log |-> Append(log, FetchingMessage(packageName))]

\* variant: the name is added but nothing is logged
logFetchingSilent(fetched, log, packageName) ==
    IF packageName \in fetched
    THEN [fetched |-> fetched, log |-> log]
    ELSE [fetched |-> fetched \cup {packageName}, log |-> log]

\* the Set and the log after logFetching(packageName)
logFetching(fetched, log, packageName) ==
    IF packageName \in fetched
    THEN [fetched |-> fetched, log |-> log]
    ELSE [fetched |-> fetched \cup {packageName},
          log |-> Append(log, FetchingMessage(packageName))]

\* if (!_packageSemver) logFetching(packageName), as load and prepare run it
Notify(p, doIt, packageName) ==
    IF doIt
    THEN LET logged == logFetching(fetchedPackages, messages, packageName)
         IN /\ fetchedPackages' = logged.fetched
            /\ messages' = logged.log
            /\ notified' = [notified EXCEPT ![p] = Append(@, packageName)]
    ELSE UNCHANGED <<fetchedPackages, messages, notified>>

(***************************************************************************)
(* load                                                                    *)
(***************************************************************************)
NoOutcome == [kind |-> "none", data |-> <<>>, error |-> "null"]
Throw(e) == [kind |-> "throw", data |-> <<>>, error |-> e]
Call(op, arg, ver) == [op |-> op, arg |-> arg, ver |-> ver]

\* variant: the '-/' test is missing
IsCdnInternalNoDash(s) ==
    \/ StartsWith(s, <<"p", "i", "n", "/">>)
    \/ StartsWith(s, <<"n", "e", "w", "/">>)
    \/ StartsWith(s, <<"e", "r", "r", "o", "r", "/">>)

IsCdnInternal(s) ==
    \/ StartsWith(s, <<"-", "/">>)
    \/ StartsWith(s, <<"p", "i", "n", "/">>)
    \/ StartsWith(s, <<"n", "e", "w", "/">>)
    \/ StartsWith(s, <<"e", "r", "r", "o", "r", "/">>)

HasExactPin(s, lf) == ~lf.isNull /\ Truthy(Get(lf.imports, s))

PrefixKey(s) == parseRawPackageImport(s)[1] \o <<"/">>

HasPrefixPin(s, lf) == ~lf.isNull /\ Truthy(Get(lf.imports, PrefixKey(s)))

\* lockfile?.dependencies && lockfile.dependencies[packageName]
PackageSemverOf(packageName, lf) ==
    IF lf.isNull THEN Undefined ELSE Get(lf.dependencies, packageName)

\* _packageSemver || 'latest'
Latest == <<"l", "a", "t", "e", "s", "t">>

\* variant: the lockfile's version is not used
EffectiveSemverAlwaysLatest(packageName, lf) == Latest

EffectiveSemver(packageName, lf) ==
    IF Truthy(PackageSemverOf(packageName, lf))
    THEN PackageSemverOf(packageName, lf) ELSE Latest

\* variant: the package-prefix pin is tested before the exact pin
FetchPathPrefixFirst(s, lf) ==
    IF IsCdnInternal(s) THEN <<"/">> \o s
    ELSE IF HasPrefixPin(s, lf)
    THEN Get(lf.imports, PrefixKey(s)) \o ToStr(parseRawPackageImport(s)[2])
    ELSE Get(lf.imports, s)

\* the path load fetches directly, when it takes one of the fetch branches
FetchPath(s, lf) ==
    IF IsCdnInternal(s) THEN <<"/">> \o s
    ELSE IF HasExactPin(s, lf) THEN Get(lf.imports, s)
    ELSE Get(lf.imports, PrefixKey(s)) \o ToStr(parseRawPackageImport(s)[2])

\* variant: a package already reported is taken for a pinned one
TakesFetchBranchIfFetched(s, lf) ==
    \/ IsCdnInternal(s) \/ HasExactPin(s, lf) \/ HasPrefixPin(s, lf)
    \/ parseRawPackageImport(s)[1] \in fetchedPackages

TakesFetchBranch(s, lf) ==
    IsCdnInternal(s) \/ HasExactPin(s, lf) \/ HasPrefixPin(s, lf)

\* variant: the !ext test is missing
LoadResultJsOnly(body, s, url) ==
    IF isJavaScript(s)
    THEN [kind |-> "string", data |-> RewriteImports(BufferToString(body), url),
          error |-> "null"]
    ELSE [kind |-> "Buffer", data |-> body, error |-> "null"]

\* the tail of load: rewrite or pass the body through
LoadResult(body, s, url) ==
    IF ~Truthy(extname(s)) \/ isJavaScript(s)
    THEN [kind |-> "string", data |-> RewriteImports(BufferToString(body), url),
          error |-> "null"]
    ELSE [kind |-> "Buffer", data |-> body, error |-> "null"]

\* load(spec, {config, lockfile}) up to its first await
LoadCall(p, s, lf, url) ==
    /\ p \in callers
    /\ pc[p] = "idle"
    /\ started < MaxCalls
    /\ started' = started + 1
    /\ method' = [method EXCEPT ![p] = "load"]
    /\ spec' = [spec EXCEPT ![p] = s]
    /\ lockfile' = [lockfile EXCEPT ![p] = lf]
    /\ webModulesUrl' = [webModulesUrl EXCEPT ![p] = url]
    /\ IF TakesFetchBranch(s, lf)
       THEN /\ cdn' = [cdn EXCEPT ![p] = <<Call("fetchCDN", FetchPath(s, lf), Null)>>]
            /\ pc' = [pc EXCEPT ![p] = "fetch"]
            /\ UNCHANGED <<fetchedPackages, messages, notified>>
       ELSE LET packageName == parseRawPackageImport(s)[1]
            IN /\ Notify(p, ~Truthy(PackageSemverOf(packageName, lf)), packageName)
               /\ cdn' = [cdn EXCEPT ![p] =
                            <<Call("lookupBySpecifier", s,
                                   EffectiveSemver(packageName, lf))>>]
               /\ pc' = [pc EXCEPT ![p] = "lookup1"]
    /\ UNCHANGED <<callers, installs, configAndParse, targets, idx, info, fetches, lookups, builds, outcome>>

\* fetchCDN resolves with a body
FetchReturn(p, body) ==
    /\ pc[p] = "fetch"
    /\ fetches' = [fetches EXCEPT ![p] = Append(@, body)]
    /\ outcome' = [outcome EXCEPT ![p] = LoadResult(body, spec[p], webModulesUrl[p])]
    /\ pc' = [pc EXCEPT ![p] = "settled"]
    /\ UNCHANGED <<fetchedPackages, messages, notified, info, callers, installs, configAndParse, started, method,
                   spec, lockfile, webModulesUrl, targets, idx, cdn, lookups,
                   builds>>

\* fetchCDN rejects
FetchThrow(p) ==
    /\ pc[p] = "fetch"
    /\ outcome' = [outcome EXCEPT ![p] = Throw("FetchError")]
    /\ pc' = [pc EXCEPT ![p] = "settled"]
    /\ UNCHANGED <<fetchedPackages, messages, notified, info, callers, installs, configAndParse, started, method,
                   spec, lockfile, webModulesUrl, targets, idx, cdn, fetches,
                   lookups, builds>>

\* what load does with the lookup response it ends on
AfterLookup(lookupResponse, s, url) ==
    IF lookupResponse.error # "null" THEN Throw(lookupResponse.error)
    ELSE LoadResult(lookupResponse.body, s, url)

\* variant: the !lookupResponse.error test is missing
NeedsBuildAnyError(lookupResponse) == lookupResponse.importStatus = "NEW"

NeedsBuild(lookupResponse) ==
    lookupResponse.error = "null" /\ lookupResponse.importStatus = "NEW"

\* load's local constant packageSemver
PackageSemver(p) ==
    EffectiveSemver(parseRawPackageImport(spec[p])[1], lockfile[p])

\* the first lookupBySpecifier resolves
Lookup1Return(p, lookupResponse) ==
    /\ pc[p] = "lookup1"
    /\ lookups' = [lookups EXCEPT ![p] = Append(@, lookupResponse)]
    /\ IF NeedsBuild(lookupResponse)
       THEN /\ cdn' = [cdn EXCEPT ![p] =
                         Append(@, Call("buildNewPackage", spec[p], PackageSemver(p)))]
            /\ pc' = [pc EXCEPT ![p] = "build"]
            /\ UNCHANGED outcome
       ELSE /\ outcome' = [outcome EXCEPT ![p] =
                             AfterLookup(lookupResponse, spec[p], webModulesUrl[p])]
            /\ pc' = [pc EXCEPT ![p] = "settled"]
            /\ UNCHANGED cdn
    /\ UNCHANGED <<fetchedPackages, messages, notified, info, callers, installs, configAndParse, started, method,
                   spec, lockfile, webModulesUrl, targets, idx, fetches, builds>>

\* variant: buildResponse.success is not tested
BuildReturnUnchecked(p, success) ==
    /\ pc[p] = "build"
    /\ builds' = [builds EXCEPT ![p] = Append(@, success)]
    /\ cdn' = [cdn EXCEPT ![p] =
                 Append(@, Call("lookupBySpecifier", spec[p], PackageSemver(p)))]
    /\ pc' = [pc EXCEPT ![p] = "lookup2"]
    /\ UNCHANGED <<fetchedPackages, messages, notified, info, callers, installs, configAndParse, started, method,
                   spec, lockfile, webModulesUrl, targets, idx, fetches, lookups,
                   outcome>>

\* buildNewPackage resolves
BuildReturn(p, success) ==
    /\ pc[p] = "build"
    /\ builds' = [builds EXCEPT ![p] = Append(@, success)]
    /\ IF ~success
       THEN /\ outcome' = [outcome EXCEPT ![p] = Throw("BuildError")]
            /\ pc' = [pc EXCEPT ![p] = "settled"]
            /\ UNCHANGED cdn
       ELSE /\ cdn' = [cdn EXCEPT ![p] =
                         Append(@, Call("lookupBySpecifier", spec[p], PackageSemver(p)))]
            /\ pc' = [pc EXCEPT ![p] = "lookup2"]
            /\ UNCHANGED outcome
    /\ UNCHANGED <<fetchedPackages, messages, notified, info, callers, installs, configAndParse, started, method,
                   spec, lockfile, webModulesUrl, targets, idx, fetches, lookups>>

\* variant: lookupResponse is not reassigned by the second lookup
Lookup2ReturnStale(p, lookupResponse) ==
    /\ pc[p] = "lookup2"
    /\ lookups' = [lookups EXCEPT ![p] = Append(@, lookupResponse)]
    /\ outcome' = [outcome EXCEPT ![p] =
                     AfterLookup(lookups[p][1], spec[p], webModulesUrl[p])]
    /\ pc' = [pc EXCEPT ![p] = "settled"]
    /\ UNCHANGED <<fetchedPackages, messages, notified, info, callers, installs, configAndParse, started, method,
                   spec, lockfile, webModulesUrl, targets, idx, cdn, fetches,
                   builds>>

\* variant: a second 'NEW' starts another build
Lookup2ReturnRetries(p, lookupResponse) ==
    /\ pc[p] = "lookup2"
    /\ lookups' = [lookups EXCEPT ![p] = Append(@, lookupResponse)]
    /\ IF NeedsBuild(lookupResponse)
       THEN /\ cdn' = [cdn EXCEPT ![p] =
                         Append(@, Call("buildNewPackage", spec[p], PackageSemver(p)))]
            /\ pc' = [pc EXCEPT ![p] = "build"]
            /\ UNCHANGED outcome
       ELSE /\ outcome' = [outcome EXCEPT ![p] =
                             AfterLookup(lookupResponse, spec[p], webModulesUrl[p])]
            /\ pc' = [pc EXCEPT ![p] = "settled"]
            /\ UNCHANGED cdn
    /\ UNCHANGED <<fetchedPackages, messages, notified, info, callers, installs,
                   configAndParse, started, method, spec, lockfile,
                   webModulesUrl, targets, idx, fetches, builds>>

\* the second lookupBySpecifier resolves
Lookup2Return(p, lookupResponse) ==
    /\ pc[p] = "lookup2"
    /\ lookups' = [lookups EXCEPT ![p] = Append(@, lookupResponse)]
    /\ outcome' = [outcome EXCEPT ![p] =
                     AfterLookup(lookupResponse, spec[p], webModulesUrl[p])]
    /\ pc' = [pc EXCEPT ![p] = "settled"]
    /\ UNCHANGED <<fetchedPackages, messages, notified, info, callers, installs, configAndParse, started, method,
                   spec, lockfile, webModulesUrl, targets, idx, cdn, fetches,
                   builds>>

(***************************************************************************)
(* prepare                                                                 *)
(***************************************************************************)
EmptyImportMap == [kind |-> "ImportMap", data |-> <<>>, error |-> "null"]
ReturnsUndefined == [kind |-> "undefined", data |-> <<>>, error |-> "null"]
NothingToInstall == "Nothing to install."

\* prepare(commandOptions) up to await getInstallTargets(config)
PrepareCall(p, lf) ==
    /\ p \in callers
    /\ pc[p] = "idle"
    /\ started < MaxCalls
    /\ started' = started + 1
    /\ method' = [method EXCEPT ![p] = "prepare"]
    /\ lockfile' = [lockfile EXCEPT ![p] = lf]
    /\ pc' = [pc EXCEPT ![p] = "scan"]
    /\ UNCHANGED <<fetchedPackages, messages, notified, info, callers, installs, configAndParse, spec,
                   webModulesUrl, targets, idx, cdn, fetches, lookups, builds,
                   outcome>>

\* variant: the lockfile.imports[spec] test is missing
PrepareNotifiesIgnoringPin(s, lf) ==
    ~Truthy(PackageSemverOf(parseRawPackageImport(s)[1], lf))

\* does the loop body call logFetching for this target
PrepareNotifies(s, lf) ==
    /\ ~HasExactPin(s, lf)
    /\ ~Truthy(PackageSemverOf(parseRawPackageImport(s)[1], lf))

\* one turn of the for loop, up to await installTypes(lookupSpec)
PrepareTarget(p, ts, i) ==
    LET s == ts[i]
        packageName == parseRawPackageImport(s)[1]
        lookupSpec == packageName
    IN /\ Notify(p, PrepareNotifies(s, lockfile[p]), packageName)
       /\ cdn' = [cdn EXCEPT ![p] = Append(@, Call("installTypes", lookupSpec, Null))]
       /\ idx' = [idx EXCEPT ![p] = i]
       /\ pc' = [pc EXCEPT ![p] = "types"]
       /\ UNCHANGED outcome

\* getInstallTargets resolves
ScanReturn(p, installTargets) ==
    /\ pc[p] = "scan"
    /\ targets' = [targets EXCEPT ![p] = installTargets]
    /\ IF Len(installTargets) = 0
       THEN /\ info' = [info EXCEPT ![p] = Append(@, NothingToInstall)]
            /\ outcome' = [outcome EXCEPT ![p] = ReturnsUndefined]
            /\ pc' = [pc EXCEPT ![p] = "settled"]
            /\ UNCHANGED <<fetchedPackages, messages, notified, cdn, idx>>
       ELSE PrepareTarget(p, installTargets, 1) /\ UNCHANGED info
    /\ UNCHANGED <<callers, installs, configAndParse, started, method, spec, lockfile, webModulesUrl,
                   fetches, lookups, builds>>

\* installTypes resolves
InstallTypesReturn(p) ==
    /\ pc[p] = "types"
    /\ installs' = [installs EXCEPT ![p] = Append(@, "resolved")]
    /\ IF idx[p] < Len(targets[p])
       THEN PrepareTarget(p, targets[p], idx[p] + 1)
       ELSE /\ outcome' = [outcome EXCEPT ![p] = EmptyImportMap]
            /\ pc' = [pc EXCEPT ![p] = "settled"]
            /\ UNCHANGED <<fetchedPackages, messages, notified, cdn, idx>>
    /\ UNCHANGED <<callers, configAndParse, started, method, spec, lockfile, webModulesUrl,
                   targets, info, fetches, lookups, builds>>

\* variant: a rejected installTypes is swallowed and the loop goes on
InstallTypesThrowContinues(p) ==
    /\ pc[p] = "types"
    /\ installs' = [installs EXCEPT ![p] = Append(@, "rejected")]
    /\ IF idx[p] < Len(targets[p])
       THEN PrepareTarget(p, targets[p], idx[p] + 1)
       ELSE /\ outcome' = [outcome EXCEPT ![p] = Throw("TypesError")]
            /\ pc' = [pc EXCEPT ![p] = "settled"]
            /\ UNCHANGED <<fetchedPackages, messages, notified, cdn, idx>>
    /\ UNCHANGED <<callers, configAndParse, started, method, spec, lockfile,
                   webModulesUrl, targets, info, fetches, lookups, builds>>

\* installTypes rejects
InstallTypesThrow(p) ==
    /\ pc[p] = "types"
    /\ installs' = [installs EXCEPT ![p] = Append(@, "rejected")]
    /\ outcome' = [outcome EXCEPT ![p] = Throw("TypesError")]
    /\ pc' = [pc EXCEPT ![p] = "settled"]
    /\ UNCHANGED <<fetchedPackages, messages, notified, info, callers, configAndParse, started, method,
                   spec, lockfile, webModulesUrl, targets, idx, cdn, fetches,
                   lookups, builds>>

(***************************************************************************)
(* modifyBuildInstallConfig, resolvePackageImport,                         *)
(* recoverMissingPackageImport: no await, each runs in one step            *)
(***************************************************************************)
SkypackPlugin == "rollupPluginSkypack"

\* variant: the plugin is put in front of the list
ModifiedInstallOptionsPrepending(options, lf) ==
    [hasLockfile |-> ~lf.isNull,
     lockfile |-> lf,
     hasRollup |-> TRUE,
     hasPlugins |-> TRUE,
     plugins |-> <<SkypackPlugin>> \o (IF options.hasRollup /\ options.hasPlugins
                                       THEN options.plugins ELSE <<>>)]

\* config.installOptions after the four assignments of the method
ModifiedInstallOptions(options, lf) ==
    [hasLockfile |-> ~lf.isNull,
     lockfile |-> lf,
     hasRollup |-> TRUE,
     hasPlugins |-> TRUE,
     plugins |-> Append(IF options.hasRollup /\ options.hasPlugins
                        THEN options.plugins ELSE <<>>,
                        SkypackPlugin)]

modifyBuildInstallConfig(p, lf) ==
    /\ p \in callers
    /\ pc[p] = "idle"
    /\ started < MaxCalls
    /\ started' = started + 1
    /\ method' = [method EXCEPT ![p] = "modifyBuildInstallConfig"]
    /\ installOptions' = ModifiedInstallOptions(installOptions, lf)
    /\ configured' = [configured EXCEPT !.calls = @ + 1]
    /\ outcome' = [outcome EXCEPT ![p] = ReturnsUndefined]
    /\ pc' = [pc EXCEPT ![p] = "settled"]
    /\ UNCHANGED <<fetchedPackages, messages, callers, spec, lockfile,
                   webModulesUrl, targets, idx, notified, info, cdn, fetches,
                   lookups, builds, installs, parse>>

\* a path with its runs of slashes collapsed, as path.posix.normalize does
RECURSIVE CollapseSlashes(_)
CollapseSlashes(path) ==
    IF Len(path) < 2 THEN path
    ELSE IF path[1] = "/" /\ path[2] = "/" THEN CollapseSlashes(Tail(path))
    ELSE <<path[1]>> \o CollapseSlashes(Tail(path))

\* path.posix.join(a, b) of two paths without '.' or '..' segments
PosixJoin(a, b) ==
    IF a = <<>> /\ b = <<>> THEN <<".">>
    ELSE IF a = <<>> THEN CollapseSlashes(b)
    ELSE IF b = <<>> THEN CollapseSlashes(a)
    ELSE CollapseSlashes(a \o <<"/">> \o b)

resolvePackageImport(p, missingPackage, url) ==
    /\ p \in callers
    /\ pc[p] = "idle"
    /\ started < MaxCalls
    /\ started' = started + 1
    /\ method' = [method EXCEPT ![p] = "resolvePackageImport"]
    /\ webModulesUrl' = [webModulesUrl EXCEPT ![p] = url]
    /\ outcome' = [outcome EXCEPT ![p] =
                     [kind |-> "string", data |-> PosixJoin(url, missingPackage),
                      error |-> "null"]]
    /\ pc' = [pc EXCEPT ![p] = "settled"]
    /\ UNCHANGED <<fetchedPackages, messages, callers, spec, lockfile, targets,
                   idx, notified, info, cdn, fetches, lookups, builds, installs,
                   configAndParse>>

recoverMissingPackageImport(p) ==
    /\ p \in callers
    /\ pc[p] = "idle"
    /\ started < MaxCalls
    /\ started' = started + 1
    /\ method' = [method EXCEPT ![p] = "recoverMissingPackageImport"]
    /\ outcome' = [outcome EXCEPT ![p] = Throw("NoMissingImportError")]
    /\ pc' = [pc EXCEPT ![p] = "settled"]
    /\ UNCHANGED <<fetchedPackages, messages, callers, spec, lockfile,
                   webModulesUrl, targets, idx, notified, info, cdn, fetches,
                   lookups, builds, installs, configAndParse>>

(***************************************************************************)
(* The build tool takes the settled promise; the call's locals are gone    *)
(***************************************************************************)
Settle(p) ==
    /\ pc[p] = "settled"
    /\ pc' = [pc EXCEPT ![p] = "idle"]
    /\ method' = [method EXCEPT ![p] = "none"]
    /\ spec' = [spec EXCEPT ![p] = <<>>]
    /\ lockfile' = [lockfile EXCEPT ![p] = NoLockfile]
    /\ webModulesUrl' = [webModulesUrl EXCEPT ![p] = <<>>]
    /\ targets' = [targets EXCEPT ![p] = <<>>]
    /\ idx' = [idx EXCEPT ![p] = 0]
    /\ notified' = [notified EXCEPT ![p] = <<>>]
    /\ info' = [info EXCEPT ![p] = <<>>]
    /\ cdn' = [cdn EXCEPT ![p] = <<>>]
    /\ fetches' = [fetches EXCEPT ![p] = <<>>]
    /\ lookups' = [lookups EXCEPT ![p] = <<>>]
    /\ builds' = [builds EXCEPT ![p] = <<>>]
    /\ installs' = [installs EXCEPT ![p] = <<>>]
    /\ outcome' = [outcome EXCEPT ![p] = NoOutcome]
    /\ UNCHANGED <<fetchedPackages, messages, callers, configAndParse, started>>

(***************************************************************************)
(* Specifications                                                          *)
(***************************************************************************)
\* the configuration as the build tool hands it over: without a rollup
\* section, or with the user's own plugins
InitialInstallOptions ==
    {[hasLockfile |-> FALSE, lockfile |-> NoLockfile, hasRollup |-> FALSE,
      hasPlugins |-> FALSE, plugins |-> <<>>],
     [hasLockfile |-> FALSE, lockfile |-> NoLockfile, hasRollup |-> TRUE,
      hasPlugins |-> TRUE, plugins |-> <<"userPlugin1", "userPlugin2">>]}

NotParsing == [spec |-> <<>>, called |-> FALSE, result |-> <<>>]

InitWith(cs) ==
    /\ fetchedPackages = {}
    /\ messages = <<>>
    /\ callers = cs
    /\ started = 0
    /\ method = [p \in Procs |-> "none"]
    /\ pc = [p \in Procs |-> "idle"]
    /\ spec = [p \in Procs |-> <<>>]
    /\ lockfile = [p \in Procs |-> NoLockfile]
    /\ webModulesUrl = [p \in Procs |-> <<>>]
    /\ targets = [p \in Procs |-> <<>>]
    /\ idx = [p \in Procs |-> 0]
    /\ notified = [p \in Procs |-> <<>>]
    /\ info = [p \in Procs |-> <<>>]
    /\ cdn = [p \in Procs |-> <<>>]
    /\ fetches = [p \in Procs |-> <<>>]
    /\ lookups = [p \in Procs |-> <<>>]
    /\ builds = [p \in Procs |-> <<>>]
    /\ installs = [p \in Procs |-> <<>>]
    /\ outcome = [p \in Procs |-> NoOutcome]
    /\ installOptions \in InitialInstallOptions
    /\ configured = [initial |-> installOptions.plugins, calls |-> 0]

\* one caller: calls follow one another
Init == InitWith({"c1"}) /\ parse = NotParsing

\* two callers: their calls interleave at the awaits
InitConc == InitWith(Procs) /\ parse = NotParsing

Next ==
    \/ \E p \in Procs, s \in InSpecs, lf \in InLockfiles, url \in InUrls :
           LoadCall(p, s, lf, url)
    \/ \E p \in Procs, body \in InBodies : FetchReturn(p, body)
    \/ \E p \in Procs : FetchThrow(p)
    \/ \E p \in Procs, r \in InLookupResponses : Lookup1Return(p, r)
    \/ \E p \in Procs, success \in BOOLEAN : BuildReturn(p, success)
    \/ \E p \in Procs, r \in InLookupResponses : Lookup2Return(p, r)
    \/ \E p \in Procs, lf \in InLockfiles : PrepareCall(p, lf)
    \/ \E p \in Procs, ts \in InTargets : ScanReturn(p, ts)
    \/ \E p \in Procs : InstallTypesReturn(p)
    \/ \E p \in Procs : InstallTypesThrow(p)
    \/ \E p \in Procs, lf \in ConfigLockfiles : modifyBuildInstallConfig(p, lf)
    \/ \E p \in Procs, missingPackage \in MissingPackages, url \in InUrls :
           resolvePackageImport(p, missingPackage, url)
    \/ \E p \in Procs : recoverMissingPackageImport(p)
    \/ \E p \in Procs : Settle(p)

Spec == Init /\ [][Next]_vars

(***************************************************************************)
(* parseRawPackageImport applied to every short specifier                  *)
(***************************************************************************)
ParseAlphabet == {"@", "/", "a", "b"}

SpecScopedDeep == <<"@", "s", "c", "o", "p", "e", "/", "n", "a", "m", "e", "/", "a", "/", "b">>
SpecLodashFp == <<"l", "o", "d", "a", "s", "h", "/", "f", "p">>
SpecLodash == <<"l", "o", "d", "a", "s", "h">>

ParseInputs ==
    SeqsUpTo(ParseAlphabet, MaxSpecLen) \cup {SpecScopedDeep, SpecLodashFp, SpecLodash}

InitParse ==
    /\ InitWith({"c1"})
    /\ parse \in {[spec |-> s, called |-> FALSE, result |-> <<>>] : s \in ParseInputs}

ParseCall ==
    /\ ~parse.called
    /\ parse' = [parse EXCEPT !.called = TRUE,
                              !.result = parseRawPackageImport(parse.spec)]
    /\ UNCHANGED <<fetchedPackages, messages, callers, started, method, pc, spec,
                   lockfile, webModulesUrl, targets, idx, notified, info, cdn,
                   fetches, lookups, builds, installs, outcome, installOptions,
                   configured>>

NextParse == ParseCall

SpecParse == InitParse /\ [][NextParse]_vars

SpecConc == InitConc /\ [][Next]_vars

(***************************************************************************)
(* Properties                                                              *)
(***************************************************************************)
Ops(calls) == [i \in 1..Len(calls) |-> calls[i].op]

Count(log, packageName) ==
    Cardinality({i \in 1..Len(log) : log[i] = FetchingMessage(packageName)})

Occurrences(names, packageName) ==
    Cardinality({i \in 1..Len(names) : names[i] = packageName})

CdnInternalPrefixes ==
    {<<"-", "/">>, <<"p", "i", "n", "/">>, <<"n", "e", "w", "/">>,
     <<"e", "r", "r", "o", "r", "/">>}

HasCdnPrefix(s) == \E pre \in CdnInternalPrefixes : StartsWith(s, pre)

ExactPinExists(p) ==
    ~lockfile[p].isNull /\ spec[p] \in DOMAIN lockfile[p].imports

PrefixPinExists(p) ==
    /\ ~lockfile[p].isNull
    /\ (parseRawPackageImport(spec[p])[1] \o <<"/">>) \in DOMAIN lockfile[p].imports

\* the body the CDN handed to the load of caller p
FetchedBody(p) ==
    IF fetches[p] # <<>> THEN fetches[p][1]
    ELSE lookups[p][Len(lookups[p])].body

FirstLookupNew(p) ==
    /\ Len(lookups[p]) >= 1
    /\ lookups[p][1].error = "null"
    /\ lookups[p][1].importStatus = "NEW"

SecondLookupReady(p) ==
    /\ Len(lookups[p]) >= 2
    /\ lookups[p][2].error = "null"
    /\ lookups[p][2].importStatus = "READY"

NewThenReady(p) ==
    /\ method[p] = "load"
    /\ pc[p] = "settled"
    /\ FirstLookupNew(p)
    /\ builds[p] # <<>> /\ builds[p][1]
    /\ SecondLookupReady(p)

\* C1: a load whose first lookup says NEW without error, whose build succeeds
\* and whose second lookup says READY without error has made exactly the calls
\* lookup, build, lookup, and its result comes from the second lookup's body.
C1_NewThenReady ==
    \A p \in Procs :
        NewThenReady(p) =>
            /\ Ops(cdn[p]) = <<"lookupBySpecifier", "buildNewPackage",
                               "lookupBySpecifier">>
            /\ Len(lookups[p]) = 2
            /\ Len(builds[p]) = 1
            /\ outcome[p] = LoadResult(lookups[p][2].body, spec[p], webModulesUrl[p])
            /\ lookups[p][1].body # lookups[p][2].body =>
                   outcome[p] # LoadResult(lookups[p][1].body, spec[p],
                                           webModulesUrl[p])

C1_Witness ==
    \E p \in Procs :
        /\ NewThenReady(p)
        /\ lookups[p][1].body # lookups[p][2].body
        /\ outcome[p].kind = "string"

\* C2: when the build reports success: false the load throws the build error,
\* which no lookup response carries, makes no second lookup and returns no body.
C2_BuildFailure ==
    \A p \in Procs :
        (method[p] = "load" /\ builds[p] # <<>> /\ ~builds[p][1]) =>
            /\ pc[p] = "settled"
            /\ outcome[p].kind = "throw"
            /\ outcome[p].error = "BuildError"
            /\ outcome[p].error \notin LookupErrors
            /\ \A i \in 1..Len(lookups[p]) : lookups[p][i].error # outcome[p].error
            /\ outcome[p].data = <<>>
            /\ Len(lookups[p]) = 1
            /\ Ops(cdn[p]) = <<"lookupBySpecifier", "buildNewPackage">>

C2_Witness ==
    \E p \in Procs :
        /\ method[p] = "load"
        /\ pc[p] = "settled"
        /\ builds[p] = <<FALSE>>
        /\ outcome[p].kind = "throw"

\* C3: a load of a package specifier with an exact pin in the lockfile makes
\* one fetch, of the pinned URL, and no lookup or build, whatever the prefix
\* pins and the dependencies are.
C3_ExactPin ==
    \A p \in Procs :
        (method[p] = "load" /\ ~HasCdnPrefix(spec[p]) /\ ExactPinExists(p)) =>
            /\ cdn[p] = <<Call("fetchCDN", lockfile[p].imports[spec[p]], Null)>>
            /\ lookups[p] = <<>>
            /\ builds[p] = <<>>

C3_Witness ==
    \E p \in Procs :
        /\ method[p] = "load"
        /\ pc[p] = "settled"
        /\ spec[p] = SpecA
        /\ lockfile[p] = FullLockfile
        /\ PrefixPinExists(p)
        /\ fetches[p] # <<>>

\* C4: however the calls of two callers interleave at their awaits, the log
\* holds at most one progress message per package name.
C4_AtMostOneMessage ==
    \A i, j \in 1..Len(messages) :
        (messages[i].text = "Fetching latest" /\ messages[i] = messages[j]) => i = j

\* two calls are suspended at once, both notified for the same package
C4_Witness ==
    /\ \A p \in Procs : pc[p] \in {"lookup1", "types"}
    /\ \A p \in Procs : Occurrences(notified[p], SpecA) = 1
    /\ Count(messages, SpecA) = 1

\* C5 as stated: every call that references a package leaves exactly one
\* message for that package in the log.
C5_Original ==
    \A p \in Procs :
        /\ (method[p] = "load" /\ ~HasCdnPrefix(spec[p])) =>
               Count(messages, parseRawPackageImport(spec[p])[1]) = 1
        /\ method[p] = "prepare" =>
               \A i \in 1..idx[p] :
                   Count(messages, parseRawPackageImport(targets[p][i])[1]) = 1

\* C5 amended: a package for which the calls reached logFetching, however
\* many times, has exactly one message.
C5_OneMessagePerNotifiedPackage ==
    \A p \in Procs :
        \A i \in 1..Len(notified[p]) : Count(messages, notified[p][i]) = 1

\* three logFetching calls for one package, from a prepare and a load
C5_Witness ==
    \E p, q \in Procs :
        /\ method[p] = "prepare"
        /\ method[q] = "load"
        /\ Occurrences(notified[p], SpecA) = 2
        /\ Occurrences(notified[q], SpecA) = 1
        /\ Count(messages, SpecA) = 1

\* C6: when the last lookup of a load reports an error the load throws that
\* error and returns no body; an error on the first lookup, whatever its
\* importStatus, is followed by no build and no second lookup.
C6_LookupError ==
    \A p \in Procs :
        (/\ method[p] = "load"
         /\ lookups[p] # <<>>
         /\ lookups[p][Len(lookups[p])].error # "null") =>
            /\ pc[p] = "settled"
            /\ outcome[p].kind = "throw"
            /\ outcome[p].error = lookups[p][Len(lookups[p])].error
            /\ outcome[p].data = <<>>
            /\ lookups[p][1].error # "null" =>
                   /\ Ops(cdn[p]) = <<"lookupBySpecifier">>
                   /\ builds[p] = <<>>
            /\ Len(lookups[p]) = 2 =>
                   /\ lookups[p][1].error = "null"
                   /\ builds[p] = <<TRUE>>

C6_Witness ==
    \E p \in Procs :
        /\ pc[p] = "settled"
        /\ Len(lookups[p]) = 1
        /\ lookups[p][1].error = "E2"
        /\ lookups[p][1].importStatus = "NEW"
        /\ outcome[p].error = "E2"

\* C7 as stated: a load of a package specifier with a package-prefix pin and
\* no exact pin makes one fetch, of the pinned URL followed by the subpath
\* (by nothing when the subpath is null), and no lookup or build.
C7_PrefixPin ==
    \A p \in Procs :
        (/\ method[p] = "load"
         /\ ~HasCdnPrefix(spec[p])
         /\ ~ExactPinExists(p)
         /\ PrefixPinExists(p)) =>
            LET parsed == parseRawPackageImport(spec[p])
                pinnedURL == lockfile[p].imports[parsed[1] \o <<"/">>]
                subpath == IF parsed[2] = Null THEN <<>> ELSE parsed[2]
            IN /\ cdn[p] = <<Call("fetchCDN", pinnedURL \o subpath, Null)>>
               /\ lookups[p] = <<>>
               /\ builds[p] = <<>>

\* C8: a load of a spec with a CDN-internal prefix fetches '/' + spec and
\* nothing else, whatever the lockfile holds, and calls logFetching for
\* nothing; the specs so treated are those starting with -/, pin/, new/ or
\* error/.
C8_CdnInternalState ==
    \A p \in Procs :
        method[p] = "load" =>
            /\ HasCdnPrefix(spec[p]) <=>
                   cdn[p][1] = Call("fetchCDN", <<"/">> \o spec[p], Null)
            /\ HasCdnPrefix(spec[p]) =>
                   /\ Len(cdn[p]) = 1
                   /\ lookups[p] = <<>>
                   /\ builds[p] = <<>>

C8_CdnInternalStep ==
    \A p \in Procs :
        (pc[p] = "idle" /\ method'[p] = "load" /\ HasCdnPrefix(spec'[p])) =>
            /\ UNCHANGED <<fetchedPackages, messages>>
            /\ notified'[p] = <<>>

C8_CdnInternal == []C8_CdnInternalState /\ [][C8_CdnInternalStep]_vars

C8_Witness ==
    \E p \in Procs :
        /\ method[p] = "load"
        /\ pc[p] = "settled"
        /\ spec[p] = SpecPin
        /\ ExactPinExists(p)
        /\ fetches[p] # <<>>
        /\ notified[p] = <<>>

QuoteFree(url) == \A i \in 1..Len(url) : url[i] \notin {"'", "\""}

JavaScriptExtensions ==
    {<<".", "j", "s">>, <<".", "m", "j", "s">>, <<".", "c", "j", "s">>}

\* C10: on every branch of load the returned value is the fetched body
\* unchanged when spec has an extension that is not a JavaScript one, and the
\* rewritten text otherwise; the fetched path plays no part.
C10_RewriteByExtensionOfSpec ==
    \A p \in Procs :
        (method[p] = "load" /\ pc[p] = "settled" /\ outcome[p].kind # "throw") =>
            IF extname(spec[p]) # <<>> /\ extname(spec[p]) \notin JavaScriptExtensions
            THEN /\ outcome[p].kind = "Buffer"
                 /\ outcome[p].data = FetchedBody(p)
            ELSE /\ outcome[p].kind = "string"
                 /\ outcome[p].data =
                        RewriteImports(BufferToString(FetchedBody(p)), webModulesUrl[p])

C10_Witness ==
    \E p \in Procs :
        /\ method[p] = "load"
        /\ pc[p] = "settled"
        /\ spec[p] = SpecABCss
        /\ cdn[p] = <<Call("fetchCDN", UrlPJs, Null)>>
        /\ outcome[p].kind = "Buffer"
        /\ outcome[p].data = BodyFrom

(***************************************************************************)
(* prepare                                                                 *)
(***************************************************************************)
InstallTypesCall(s) == Call("installTypes", parseRawPackageImport(s)[1], Null)

Rejections(p) == {i \in 1..Len(installs[p]) : installs[p][i] = "rejected"}

C11_SequentialState ==
    \A p \in Procs :
        method[p] = "prepare" =>
            /\ Len(cdn[p]) <= Len(targets[p])
            /\ \A i \in 1..Len(cdn[p]) : cdn[p][i] = InstallTypesCall(targets[p][i])
            /\ Len(cdn[p]) - Len(installs[p]) = (IF pc[p] = "types" THEN 1 ELSE 0)
            /\ Len(notified[p]) <= Len(cdn[p])
            /\ outcome[p] = EmptyImportMap => Len(cdn[p]) = Len(targets[p])
            /\ \A i \in Rejections(p) :
                   /\ i = Len(cdn[p])
                   /\ pc[p] = "settled"
                   /\ outcome[p] = Throw("TypesError")

C11_SequentialStep ==
    \A p \in Procs :
        /\ method'[p] = "prepare"
        /\ \/ Len(cdn'[p]) > Len(cdn[p])
           \/ Len(notified'[p]) > Len(notified[p])
        => /\ Len(cdn'[p]) = Len(cdn[p]) + 1
           /\ Len(installs'[p]) = Len(cdn[p])
           /\ \A i \in 1..Len(installs'[p]) : installs'[p][i] = "resolved"

\* C11: prepare makes one installTypes call per target, in the order of the
\* targets, and never has two of them outstanding: the call and the
\* notification for the next target come only when every earlier call has
\* resolved, and a rejected call ends prepare with no later target processed.
C11_Sequential == []C11_SequentialState /\ [][C11_SequentialStep]_vars

C11_Witness ==
    \E p \in Procs :
        /\ method[p] = "prepare"
        /\ Len(targets[p]) = 2
        /\ Len(cdn[p]) = 2
        /\ installs[p] = <<"resolved", "resolved">>
        /\ outcome[p] = EmptyImportMap

\* C12: a prepare that returns returns {imports: {}}, whatever the targets
\* and the lockfile; with zero targets it has also made no installTypes call
\* and no notification.
C12_ReturnsEmptyImportMap ==
    \A p \in Procs :
        method[p] = "prepare" /\ pc[p] = "settled" /\ outcome[p].kind # "throw" =>
            /\ outcome[p] = EmptyImportMap
            /\ targets[p] = <<>> => cdn[p] = <<>> /\ notified[p] = <<>>

(***************************************************************************)
(* load's lookup path                                                      *)
(***************************************************************************)
OnLookupPath(p) ==
    /\ method[p] = "load"
    /\ ~HasCdnPrefix(spec[p])
    /\ ~ExactPinExists(p)
    /\ ~PrefixPinExists(p)

LookupBuildLookup == <<"lookupBySpecifier", "buildNewPackage", "lookupBySpecifier">>

NewWithoutError(lookupResponse) ==
    lookupResponse.error = "null" /\ lookupResponse.importStatus = "NEW"

\* C14: one load makes at most two lookups and one build, whatever the CDN
\* answers: the build right after a first lookup without error and with
\* status NEW, the second lookup after a build that succeeded; a second
\* lookup answering NEW without error ends the load with that lookup's body.
C14_SingleRetry ==
    \A p \in Procs :
        method[p] = "load" =>
            /\ Cardinality({i \in 1..Len(cdn[p]) : cdn[p][i].op = "lookupBySpecifier"}) <= 2
            /\ Cardinality({i \in 1..Len(cdn[p]) : cdn[p][i].op = "buildNewPackage"}) <= 1
            /\ \/ Ops(cdn[p]) = <<"fetchCDN">>
               \/ /\ Len(cdn[p]) \in 1..3
                  /\ Ops(cdn[p]) = SubSeq(LookupBuildLookup, 1, Len(cdn[p]))
            /\ Len(cdn[p]) >= 2 => NewWithoutError(lookups[p][1])
            /\ Len(cdn[p]) = 3 => builds[p] = <<TRUE>>
            /\ Len(lookups[p]) = 2 /\ NewWithoutError(lookups[p][2]) =>
                   /\ pc[p] = "settled"
                   /\ Len(cdn[p]) = 3
                   /\ outcome[p] = LoadResult(lookups[p][2].body, spec[p],
                                              webModulesUrl[p])

C14_Witness ==
    \E p \in Procs :
        /\ method[p] = "load"
        /\ Len(lookups[p]) = 2
        /\ NewWithoutError(lookups[p][2])
        /\ pc[p] = "settled"

DependencyKnown(packageName, lf) ==
    ~lf.isNull /\ packageName \in DOMAIN lf.dependencies

ExpectedVersion(packageName, lf) ==
    IF DependencyKnown(packageName, lf)
    THEN lf.dependencies[packageName] ELSE <<"l", "a", "t", "e", "s", "t">>

\* C15: on the lookup path the version is lockfile.dependencies[packageName]
\* when the entry is there and 'latest' when it is not or the lockfile is
\* null; logFetching is called for the package name exactly when the entry is
\* not there; both lookups and the build carry the full spec and that version.
C15_EffectiveVersion ==
    \A p \in Procs :
        OnLookupPath(p) =>
            LET packageName == parseRawPackageImport(spec[p])[1]
            IN /\ \A i \in 1..Len(cdn[p]) :
                      /\ cdn[p][i].arg = spec[p]
                      /\ cdn[p][i].ver = ExpectedVersion(packageName, lockfile[p])
               /\ notified[p] = IF DependencyKnown(packageName, lockfile[p])
                                THEN <<>> ELSE <<packageName>>

C15_Witness ==
    \E p \in Procs :
        /\ OnLookupPath(p)
        /\ spec[p] = SpecAB
        /\ lockfile[p] = DepsLockfile
        /\ Len(cdn[p]) = 3
        /\ cdn[p][3] = Call("lookupBySpecifier", SpecAB, Semver1)
        /\ notified[p] = <<>>

(***************************************************************************)
(* prepare's notifications                                                 *)
(***************************************************************************)
PackageNames(specs) ==
    [i \in 1..Len(specs) |-> parseRawPackageImport(specs[i])[1]]

\* the targets prepare has gone through so far
Processed(p) == SubSeq(targets[p], 1, Len(cdn[p]))

VersionUnknown(p, s) ==
    ~DependencyKnown(parseRawPackageImport(s)[1], lockfile[p])

Unpinned(p, s) == lockfile[p].isNull \/ s \notin DOMAIN lockfile[p].imports

BareNameLookups(p) ==
    \A i \in 1..Len(cdn[p]) :
        cdn[p][i] = Call("installTypes", parseRawPackageImport(targets[p][i])[1], Null)

\* C16 as stated: prepare calls logFetching for a target's package name
\* exactly when the lockfile has no dependency version for the package, and
\* calls installTypes with the bare package name whatever the lockfile holds.
C16_Original ==
    \A p \in Procs :
        method[p] = "prepare" =>
            LET Test(s) == VersionUnknown(p, s)
            IN /\ notified[p] = PackageNames(SelectSeq(Processed(p), Test))
               /\ BareNameLookups(p)

\* C16: prepare calls logFetching for a target's package name exactly when
\* the lockfile has neither an exact pin for the target nor a dependency
\* version for the package, and calls installTypes with the bare package name
\* whatever the lockfile holds.
C16_NotifiesUnpinnedUnknown ==
    \A p \in Procs :
        method[p] = "prepare" =>
            LET Test(s) == Unpinned(p, s) /\ VersionUnknown(p, s)
            IN /\ notified[p] = PackageNames(SelectSeq(Processed(p), Test))
               /\ BareNameLookups(p)

C16_Witness ==
    \E p \in Procs :
        /\ method[p] = "prepare"
        /\ lockfile[p] = ExactLockfile
        /\ targets[p] = <<SpecA, SpecAB>>
        /\ Len(cdn[p]) = 2
        /\ notified[p] = <<SpecA>>

(***************************************************************************)
(* parseRawPackageImport                                                   *)
(***************************************************************************)
Segments(s) == Split(s, "/")

FirstSegments(s, n) ==
    Join(SubSeq(Segments(s), 1, IF Len(Segments(s)) < n THEN Len(Segments(s)) ELSE n), "/")

RemainingSegments(s, n) ==
    LET rest == Join(SubSeq(Segments(s), n + 1, Len(Segments(s))), "/")
    IN IF rest = <<>> THEN Null ELSE rest

ParsesAsDescribed(s, result) ==
    LET n == IF s # <<>> /\ s[1] = "@" THEN 2 ELSE 1
    IN /\ result[1] = FirstSegments(s, n)
       /\ result[2] = RemainingSegments(s, n)
       /\ result[2] # Null => result[1] \o <<"/">> \o result[2] = s

ParsesExamples(s, result) ==
    /\ s = SpecScopedDeep =>
           result = <<<<"@", "s", "c", "o", "p", "e", "/", "n", "a", "m", "e">>,
                      <<"a", "/", "b">>>>
    /\ s = SpecLodashFp => result = <<SpecLodash, <<"f", "p">>>>
    /\ s = SpecLodash => result = <<SpecLodash, Null>>

\* C13: for every specifier, the package name is the first two segments
\* joined by '/' when the specifier starts with '@' and the first segment
\* when it does not; the subpath is the other segments joined by '/', null
\* when that is empty; a non-null subpath gives back the specifier as
\* packageName + '/' + subpath; the three examples of the text hold.
C13_ParsesEverySpecifier ==
    parse.called =>
        /\ ParsesAsDescribed(parse.spec, parse.result)
        /\ ParsesExamples(parse.spec, parse.result)

(***************************************************************************)
(* modifyBuildInstallConfig                                                *)
(***************************************************************************)
Copies(x, k) == [i \in 1..k |-> x]

\* C17: after k calls of modifyBuildInstallConfig the plugin list is the
\* list the configuration started with (none when it had no list), in its
\* order, followed by k skypack plugins: each call appends one at the end.
C17_PluginsAppended ==
    /\ installOptions.plugins = configured.initial \o Copies(SkypackPlugin, configured.calls)
    /\ configured.calls > 0 => installOptions.hasRollup /\ installOptions.hasPlugins

C17_Witness ==
    /\ configured.calls = 2
    /\ configured.initial = <<"userPlugin1", "userPlugin2">>
    /\ Len(installOptions.plugins) = 4

(***************************************************************************)
(* fetchedPackages                                                         *)
(***************************************************************************)
\* C18: fetchedPackages starts empty and no step of a prepare, load,
\* modifyBuildInstallConfig, resolvePackageImport or
\* recoverMissingPackageImport call, ending well or not, takes a name out.
C18_GrowsMonotonically ==
    /\ fetchedPackages = {}
    /\ [][fetchedPackages \subseteq fetchedPackages']_vars

C18_Witness ==
    /\ Cardinality(fetchedPackages) = 2
    /\ \E p \in Procs : pc[p] = "settled" /\ outcome[p].kind = "throw"

SameLoad(p, q) ==
    /\ method[p] = "load" /\ method[q] = "load"
    /\ spec[p] = spec[q]
    /\ lockfile[p] = lockfile[q]
    /\ webModulesUrl[p] = webModulesUrl[q]

FetchRejected(p) == pc[p] = "settled" /\ outcome[p] = Throw("FetchError")

SameResponses(p, q) ==
    /\ fetches[p] = fetches[q]
    /\ FetchRejected(p) <=> FetchRejected(q)
    /\ lookups[p] = lookups[q]
    /\ builds[p] = builds[q]

\* C19: two loads with the same spec, lockfile and config that got the same
\* answers from the CDN made the same CDN calls with the same arguments and
\* ended the same way, although fetchedPackages was not the same when each
\* began and other loads ran in between; only the message may differ.
C19_LoadIgnoresFetchedPackages ==
    \A p, q \in Procs :
        SameLoad(p, q) /\ SameResponses(p, q) =>
            /\ cdn[p] = cdn[q]
            /\ pc[p] = pc[q]
            /\ outcome[p] = outcome[q]

C19_Witness ==
    \E p, q \in Procs :
        /\ p # q
        /\ SameLoad(p, q) /\ SameResponses(p, q)
        /\ pc[p] = "settled" /\ pc[q] = "settled"
        /\ Len(lookups[p]) = 2
        /\ notified[p] = <<SpecA>> /\ notified[q] = <<SpecA>>
        /\ messages = <<FetchingMessage(SpecA)>>

Reported == {messages[i].pkg : i \in 1..Len(messages)}

C20_SetIsReported ==
    /\ fetchedPackages = Reported
    /\ \A i \in 1..Len(messages) : messages[i] = FetchingMessage(messages[i].pkg)

Pinned(s, lf) ==
    /\ ~lf.isNull
    /\ \/ s \in DOMAIN lf.imports
       \/ (parseRawPackageImport(s)[1] \o <<"/">>) \in DOMAIN lf.imports

\* caller p begins a load that adds packageName
LoadAdds(p, packageName) ==
    /\ pc[p] = "idle" /\ method'[p] = "load"
    /\ ~HasCdnPrefix(spec'[p])
    /\ ~Pinned(spec'[p], lockfile'[p])
    /\ packageName = parseRawPackageImport(spec'[p])[1]
    /\ ~DependencyKnown(packageName, lockfile'[p])

\* caller p's prepare comes to a target that adds packageName
PrepareAdds(p, packageName) ==
    /\ method'[p] = "prepare"
    /\ Len(cdn'[p]) = Len(cdn[p]) + 1
    /\ LET s == targets'[p][Len(cdn'[p])]
       IN /\ lockfile'[p].isNull \/ s \notin DOMAIN lockfile'[p].imports
          /\ packageName = parseRawPackageImport(s)[1]
          /\ ~DependencyKnown(packageName, lockfile'[p])

\* the steps of calls that leave the Set and the log alone
Bystander(p) ==
    \/ /\ pc[p] = "idle" /\ method'[p] = "load"
       /\ HasCdnPrefix(spec'[p]) \/ Pinned(spec'[p], lockfile'[p])
    \/ pc[p] = "fetch" /\ pc'[p] # "fetch"
    \/ /\ pc[p] = "idle"
       /\ method'[p] \in {"modifyBuildInstallConfig", "resolvePackageImport",
                           "recoverMissingPackageImport"}

C20_EntersByNotification ==
    /\ \A packageName \in fetchedPackages' \ fetchedPackages :
           \E p \in Procs : LoadAdds(p, packageName) \/ PrepareAdds(p, packageName)
    /\ \A p \in Procs : Bystander(p) => UNCHANGED <<fetchedPackages, messages>>

\* C20: fetchedPackages is the set of package names with a message logged;
\* a name comes in with a load on the lookup path that finds no dependency
\* version for it, or with a prepare target that has no exact pin and no
\* dependency version; a load of a CDN path, of an exact or a prefix pin, and
\* every modifyBuildInstallConfig, resolvePackageImport and
\* recoverMissingPackageImport call leave the Set and the log as they were.
C20_Frame == []C20_SetIsReported /\ [][C20_EntersByNotification]_vars

C20_Witness ==
    /\ fetchedPackages = {SpecA}
    /\ messages = <<FetchingMessage(SpecA)>>
    /\ \E p \in Procs :
           /\ method[p] = "load" /\ pc[p] = "settled"
           /\ Pinned(spec[p], lockfile[p])
           /\ fetches[p] # <<>>

====
